---- MODULE Spec2Model ----
(***************************************************************************)
(* ADHDClock (src/main.py): the alarm scheduler (AlarmManager and its      *)
(* QTimer), the waveform synthesizer (SoundGenerator.play_sound and its    *)
(* lock), the countdown computation (CountdownOverlay.update_countdown)    *)
(* and the UI handlers that drive them (tray toggle, settings save, test   *)
(* sound).                                                                 *)
(*                                                                         *)
(* Time is the wall clock in milliseconds (QDateTime.currentMSecsSinceEpoch*)
(* relative to process start).  Durations are kept in tenths of a second,  *)
(* the resolution of the duration spin box (decimals = 1).                 *)
(***************************************************************************)
EXTENDS Integers, Sequences, FiniteSets, TLC

VARIABLES
    now,            \* wall clock, ms
    mainDone,       \* main() has run up to app.exec()
    config,         \* ConfigManager.config (the nested dicts shared by every reader)
    alarm_manager,  \* AlarmManager: active, last_trigger_time, timer (QTimer)
    countdown,      \* CountdownOverlay: visible, label text, last remaining_ms
    sg,             \* SoundGenerator instances: playing, play_obj, _lock
    threads,        \* playback worker threads (threading.Thread running play_sound)
    lastCall,       \* history: the AlarmManager method called since the clock last advanced
    tests,          \* history: the number of test_sound calls so far
    errors,         \* history: the "Sound playback error" lines printed, up to MaxErrors
    config_file,    \* config.json: missing, unparseable, or the JSON object it holds
    audio           \* the buffer last rendered: frames per channel and one probed frame

vars == <<now, mainDone, config, alarm_manager, countdown, sg, threads, lastCall, tests, errors,
          config_file, audio>>

----------------------------------------------------------------------------
\* Bounds of the model.
MaxTime == 11000
MaxThreads == 2
MaxTests == 1
MaxLaps == 4
MaxErrors == 1

\* Program constants.
MsPerSecond == 1000
MsPerTenth == 100
MinInterval == 5
TestDuration == 10
DefaultDuration == 30
DefaultInterval == 30
sample_rate == 44100
FullScale == 32767
MaxDuration == 100

TickSteps == {1000}

ThreadIds == 1..MaxThreads
\* Generator 0 is the SoundGenerator built in main(); generator t is the
\* temporary SoundGenerator that test_sound builds for the thread in slot t.
GenIds == 0..MaxThreads

WaveKinds == <<"sine", "square", "sawtooth", "triangle">>

\* Values the persisted configuration and the dialog controls are drawn from.
\* Spec varies the sound duration under the minimum interval; SpecSched
\* varies the interval under the default duration.
DurationChoices == {DefaultDuration, 60}
SecondsChoices == {3, 7}
KindChoices == {{"sine"}}
FreqMinChoices == {400}
FreqMaxChoices == {400}

Configs(durations) ==
    { [alarm |-> [enabled |-> e, duration |-> d, interval |-> MinInterval],
       sound |-> [type |-> <<"sine">>, frequency_min |-> 400, frequency_max |-> 400]]
      : e \in BOOLEAN, d \in durations }

Controls(durations, seconds) ==
    [alarm_checkbox : BOOLEAN, duration : durations,
     hours : {0}, minutes : {0}, seconds : seconds,
     kinds : KindChoices, freq_min : FreqMinChoices, freq_max : FreqMaxChoices]

InitConfigs == Configs(DurationChoices)
SaveInputs == Controls(DurationChoices, {3})

SchedInitConfigs == Configs({DefaultDuration})
SchedSaveInputs == Controls({DefaultDuration}, SecondsChoices)
ThreadsSaveInputs == Controls({DefaultDuration}, {3})

TestInputs ==
    [sound_type : {"none", "sine"}, kinds : KindChoices,
     freq_min : FreqMinChoices, freq_max : FreqMaxChoices]

----------------------------------------------------------------------------
\* ConfigManager

\* The built-in defaults of load_config (the keys the scheduler and the
\* synthesizer read).
default_config ==
    [alarm |-> [enabled |-> FALSE, duration |-> DefaultDuration, interval |-> DefaultInterval],
     sound |-> [type |-> WaveKinds, frequency_min |-> 400, frequency_max |-> 800]]

\* json.dump of the configuration into config.json
save_config(cfg) == [state |-> "valid", content |-> cfg]

\* a load_config that returns whatever an existing file holds
load_config_trusts_file(file) ==
    IF file.state = "missing"
    THEN [config |-> default_config, file |-> save_config(default_config)]
    ELSE [config |-> file.content, file |-> file]

\* load_config: the configuration it returns and the file it leaves
load_config(file) ==
    IF file.state = "missing"
    THEN [config |-> default_config, file |-> save_config(default_config)]
    ELSE IF file.state = "corrupt"
    THEN [config |-> default_config, file |-> file]
    ELSE [config |-> file.content, file |-> file]

----------------------------------------------------------------------------
\* SoundGenerator.generate_*_wave

NoAudio == [rendered |-> FALSE, kind |-> "none", duration |-> 0, unit |-> 0,
            frames |-> 0, left |-> 0, right |-> 0]

RECURSIVE Pow2(_)
Pow2(n) == IF n = 0 THEN 1 ELSE 2 * Pow2(n - 1)

\* The binary exponent of duration/10 seconds: 2^a <= duration/10 < 2^(a+1).
BinExp(duration) ==
    CHOOSE a \in -4..3 :
        10 * Pow2(a + 4) <= 16 * duration /\ 16 * duration < 10 * Pow2(a + 5)

\* 2^s mod 10 for s >= 1
PowMod10(s) == <<2, 4, 8, 6>>[((s - 1) % 4) + 1]

\* The double nearest to duration/10 differs from it by DoubleError/10 units
\* in the last place (53-bit significand, round to nearest).
DoubleError(duration) ==
    LET r == ((duration % 10) * PowMod10(52 - BinExp(duration))) % 10
    IN IF r < 5 THEN 0 - r ELSE 10 - r

Log2(p) == CHOOSE e \in 0..30 : Pow2(e) <= p /\ p < 2 * Pow2(e)

\* int(duration * self.sample_rate) for a duration of duration/10 seconds held
\* as a double: the product is rounded to a double, then truncated.  It falls
\* below the integer 4410 * duration when the double is below duration/10 by
\* more than half the spacing of the doubles at the product.
frame_count(duration) ==
    LET p == (sample_rate \div 10) * duration
    IN IF /\ DoubleError(duration) < 0
          /\ (sample_rate \div 10) * (0 - DoubleError(duration)) * Pow2(BinExp(duration) + 5)
                 > Pow2(Log2(p) + 4)
       THEN p - 1
       ELSE p

\* The values a kind's unit waveform takes at a frame, in quarters:
\* np.sign gives -1, 0 or 1; the other kinds range over [-1, 1].
unit_amplitudes(kind) == IF kind = "square" THEN {-4, 0, 4} ELSE -4..4

\* a conversion to int16 that rounds down
to_int16_floor(num, den) == num \div den

\* astype(np.int16) of num/den: the fraction is dropped (toward zero)
to_int16(num, den) == IF num >= 0 THEN num \div den ELSE 0 - ((0 - num) \div den)

\* (wave * 0.5 * 32767).astype(np.int16) for a unit amplitude of a/4
pcm(a) == to_int16(a * FullScale, 8)

\* generate_<kind>_wave(frequency, duration) and np.column_stack((wave, wave)),
\* seen at one frame where the unit waveform has amplitude a/4
render(kind, duration, a) ==
    [rendered |-> TRUE, kind |-> kind, duration |-> duration, unit |-> a,
     frames |-> frame_count(duration), left |-> pcm(a), right |-> pcm(a)]

----------------------------------------------------------------------------
\* QTimer
timer_start(msec, t) == [active |-> TRUE, interval |-> msec, deadline |-> t + msec]

timer_stop(tm) == [tm EXCEPT !.active = FALSE, !.deadline = 0]

\* setInterval restarts a running timer with the new interval and only
\* stores the interval of a stopped one.
timer_setInterval(tm, msec, t) ==
    IF tm.active THEN [active |-> TRUE, interval |-> msec, deadline |-> t + msec]
    ELSE [tm EXCEPT !.interval = msec]

\* AlarmManager
\* start_alarm without its early return
start_alarm_restarts(am, cfg, t) ==
    [active |-> TRUE,
     last_trigger_time |-> t,
     timer |-> timer_start(cfg.alarm.interval * MsPerSecond, t)]

\* start_alarm that leaves last_trigger_time as it was
start_alarm_stale(am, cfg, t) ==
    IF am.active THEN am
    ELSE [active |-> TRUE,
          last_trigger_time |-> am.last_trigger_time,
          timer |-> timer_start(cfg.alarm.interval * MsPerSecond, t)]

start_alarm(am, cfg, t) ==
    IF am.active THEN am
    ELSE [active |-> TRUE,
          last_trigger_time |-> t,
          timer |-> timer_start(cfg.alarm.interval * MsPerSecond, t)]

\* stop_alarm that leaves the timer running
stop_alarm_keeps_timer(am) == [am EXCEPT !.active = FALSE]

stop_alarm(am) ==
    [am EXCEPT !.active = FALSE, !.timer = timer_stop(am.timer)]

\* alarm_callback without the setInterval: the timer repeats with the interval
\* it was started with
alarm_callback_keeps_interval(am, cfg, t) ==
    [am EXCEPT !.last_trigger_time = t,
               !.timer = timer_setInterval(am.timer, am.timer.interval, t)]

\* alarm_callback that does not record the trigger time
alarm_callback_no_timestamp(am, cfg, t) ==
    [am EXCEPT !.timer = timer_setInterval(am.timer, cfg.alarm.interval * MsPerSecond, t)]

\* alarm_callback on a timer that does not repeat after the fire
alarm_callback_single_shot(am, cfg, t) ==
    [am EXCEPT !.last_trigger_time = t,
               !.timer = [active |-> FALSE,
                          interval |-> cfg.alarm.interval * MsPerSecond,
                          deadline |-> 0]]

alarm_callback(am, cfg, t) ==
    [am EXCEPT !.last_trigger_time = t,
               !.timer = timer_setInterval(am.timer, cfg.alarm.interval * MsPerSecond, t)]

\* countdown.show() in start_alarm, skipped by the early return
shown_by_start(am, cd) == IF am.active THEN cd ELSE [cd EXCEPT !.visible = TRUE]

hidden_by_stop(cd) == [cd EXCEPT !.visible = FALSE]

start_call(am) == IF am.active THEN "start_noop" ELSE "start"

----------------------------------------------------------------------------
\* Worker threads
IdleThread ==
    [pc |-> "idle", gen |-> 0, busy |-> FALSE, kind |-> "none",
     min_freq |-> 0, selected_frequency |-> 0, duration |-> 0, endTime |-> 0]

NewSoundGenerator == [playing |-> FALSE, play_obj |-> 0, lock |-> 0]

FreeSlots == {t \in ThreadIds : threads[t].pc = "idle"}

Min(S) == CHOOSE x \in S : \A y \in S : x <= y

\* threading.Thread(target=g.play_sound).start(): the thread is about to
\* execute play_sound's first statement.  busy records whether g was playing
\* when the call was made.
spawn(ths, t, g, gens) ==
    [ths EXCEPT ![t] = [IdleThread EXCEPT !.pc = "lock", !.gen = g,
                                          !.busy = gens[g].playing]]

SeqToSet(s) == {s[i] : i \in 1..Len(s)}

----------------------------------------------------------------------------
InitFrom(configs) ==
    /\ now = 0
    /\ mainDone = FALSE
    /\ config \in configs
    /\ alarm_manager = [active |-> FALSE, last_trigger_time |-> 0,
                        timer |-> [active |-> FALSE, interval |-> 0, deadline |-> 0]]
    \* update_countdown in CountdownOverlay.__init__ finds the scheduler inactive and hides
    /\ countdown = [visible |-> FALSE, remaining_ms |-> 0, text |-> <<>>]
    /\ sg = [g \in GenIds |-> NewSoundGenerator]
    /\ threads = [t \in ThreadIds |-> IdleThread]
    /\ lastCall = "none"
    /\ tests = 0
    /\ errors = 0
    /\ audio = NoAudio
    /\ config_file = save_config(config)

Init == InitFrom(InitConfigs)

SchedInit == InitFrom(SchedInitConfigs)

\* main(): start the alarm if the configuration enables it, then run the event loop.
Main ==
    /\ ~mainDone
    /\ mainDone' = TRUE
    /\ alarm_manager' = IF config.alarm.enabled
                        THEN start_alarm(alarm_manager, config, now)
                        ELSE alarm_manager
    /\ countdown' = IF config.alarm.enabled
                    THEN shown_by_start(alarm_manager, countdown)
                    ELSE countdown
    /\ lastCall' = IF config.alarm.enabled THEN start_call(alarm_manager) ELSE lastCall
    /\ UNCHANGED <<now, config, sg, threads, tests, errors, config_file, audio>>

----------------------------------------------------------------------------
\* CountdownOverlay.update_countdown

\* the remaining time without the wrap-around
remaining_ms_no_wrap(cfg, last_trigger_time, current_time) ==
    cfg.alarm.interval * MsPerSecond - (current_time - last_trigger_time)

\* lines 264-267; Python's % takes the sign of the divisor, as TLA+'s does
\* for a positive divisor
remaining_ms(cfg, last_trigger_time, current_time) ==
    LET interval_ms == cfg.alarm.interval * MsPerSecond
        elapsed_ms == (current_time - last_trigger_time) % interval_ms
    IN interval_ms - elapsed_ms

\* lines 270-276: hours, minutes, seconds and hundredths shown by the label
countdown_text(ms) ==
    << ms \div 3600000, (ms % 3600000) \div 60000, (ms % 60000) \div MsPerSecond,
       (ms % MsPerSecond) \div 10 >>

update_countdown(cd, am, cfg, t) ==
    IF ~am.active THEN [cd EXCEPT !.visible = FALSE]
    ELSE [visible |-> TRUE,
          remaining_ms |-> remaining_ms(cfg, am.last_trigger_time, t),
          text |-> countdown_text(remaining_ms(cfg, am.last_trigger_time, t))]

\* The 100 ms redraw timer of the overlay.
UpdateCountdown ==
    /\ mainDone
    /\ countdown' = update_countdown(countdown, alarm_manager, config, now)
    /\ UNCHANGED <<now, mainDone, config, alarm_manager, sg, threads, lastCall, tests, errors, config_file, audio>>

----------------------------------------------------------------------------
\* The event loop (UI thread)

\* A worker has a step it can take without waiting for the lock or the audio.
ThreadReady(t) ==
    \/ threads[t].pc \in {"rmax", "rdur"}
    \/ threads[t].pc = "lock" /\ sg[threads[t].gen].lock = 0
    \/ threads[t].pc = "wait" /\ now >= threads[t].endTime

\* Time passes; the QTimer times out at its deadline, so the clock does not
\* pass a pending deadline.
TimePasses(d) ==
    /\ mainDone
    /\ now + d <= MaxTime
    /\ alarm_manager.timer.active => now + d <= alarm_manager.timer.deadline
    /\ now' = now + d
    /\ lastCall' = "none"
    /\ UNCHANGED <<mainDone, config, alarm_manager, countdown, sg, threads, tests, errors, config_file, audio>>

\* Time passes with prompt workers: a worker that can run has run, and
\* wait_done returns when the playback ends.
Tick(d) ==
    /\ \A t \in ThreadIds : ~ThreadReady(t)
    /\ \A t \in ThreadIds : threads[t].pc = "wait" => now + d <= threads[t].endTime
    /\ TimePasses(d)

\* Time passes whatever the workers are doing: the operating system may leave
\* a worker unscheduled for any length of time.
TickLate(d) == TimePasses(d)

\* a callback that plays the sound itself and so needs the playback lock
AlarmCallback_waits_for_audio ==
    /\ mainDone
    /\ alarm_manager.timer.active
    /\ now >= alarm_manager.timer.deadline
    /\ FreeSlots # {}
    /\ sg[0].lock = 0
    /\ alarm_manager' = alarm_callback(alarm_manager, config, now)
    /\ threads' = spawn(threads, Min(FreeSlots), 0, sg)
    /\ lastCall' = "fire"
    /\ UNCHANGED <<now, mainDone, config, countdown, sg, tests, errors, config_file, audio>>

\* QTimer.timeout -> AlarmManager.alarm_callback
AlarmCallback ==
    /\ mainDone
    /\ alarm_manager.timer.active
    /\ now >= alarm_manager.timer.deadline
    /\ FreeSlots # {}
    /\ alarm_manager' = alarm_callback(alarm_manager, config, now)
    /\ threads' = spawn(threads, Min(FreeSlots), 0, sg)
    /\ lastCall' = "fire"
    /\ UNCHANGED <<now, mainDone, config, countdown, sg, tests, errors, config_file, audio>>

\* a toggle whose stop also cuts the scheduler's sound off
ToggleAlarm_stops_playback(checked) ==
    /\ mainDone
    /\ alarm_manager' = IF checked THEN start_alarm(alarm_manager, config, now)
                        ELSE stop_alarm(alarm_manager)
    /\ countdown' = IF checked THEN shown_by_start(alarm_manager, countdown)
                    ELSE hidden_by_stop(countdown)
    /\ config' = [config EXCEPT !.alarm.enabled = checked]
    /\ lastCall' = IF checked THEN start_call(alarm_manager) ELSE "stop"
    /\ sg' = IF checked THEN sg ELSE [sg EXCEPT ![0].playing = FALSE, ![0].play_obj = 0]
    /\ config_file' = save_config(config')
    /\ UNCHANGED <<now, mainDone, threads, tests, errors, audio>>

\* SystemTrayIcon.toggle_alarm(checked)
\* a toggle that starts or stops the scheduler without recording it
ToggleAlarm_keeps_enabled(checked) ==
    /\ mainDone
    /\ alarm_manager' = IF checked THEN start_alarm(alarm_manager, config, now)
                        ELSE stop_alarm(alarm_manager)
    /\ countdown' = IF checked THEN shown_by_start(alarm_manager, countdown)
                    ELSE hidden_by_stop(countdown)
    /\ lastCall' = IF checked THEN start_call(alarm_manager) ELSE "stop"
    /\ config_file' = save_config(config)
    /\ UNCHANGED <<now, mainDone, config, sg, threads, tests, errors, audio>>

ToggleAlarm(checked) ==
    /\ mainDone
    /\ alarm_manager' = IF checked THEN start_alarm(alarm_manager, config, now)
                        ELSE stop_alarm(alarm_manager)
    /\ countdown' = IF checked THEN shown_by_start(alarm_manager, countdown)
                    ELSE hidden_by_stop(countdown)
    /\ config' = [config EXCEPT !.alarm.enabled = checked]
    /\ lastCall' = IF checked THEN start_call(alarm_manager) ELSE "stop"
    /\ config_file' = save_config(config')
    /\ UNCHANGED <<now, mainDone, sg, threads, tests, errors, audio>>

\* the ticked kinds without the fallback for an empty selection
checked_types_no_fallback(kinds) == SelectSeq(WaveKinds, LAMBDA k : k \in kinds)

\* The kinds whose check boxes are ticked, in the order the handlers append
\* them; ["sine"] when none is.
checked_types(kinds) ==
    LET picked == SelectSeq(WaveKinds, LAMBDA k : k \in kinds)
    IN IF picked = <<>> THEN <<"sine">> ELSE picked

total_seconds(in) ==
    LET total == in.hours * 3600 + in.minutes * 60 + in.seconds
    IN IF total < MinInterval THEN MinInterval ELSE total

\* The configuration save_settings stores.
saved_config(cfg, in) ==
    [alarm |-> [enabled |-> in.alarm_checkbox,
                duration |-> in.duration,
                interval |-> total_seconds(in)],
     sound |-> [type |-> checked_types(in.kinds),
                frequency_min |-> in.freq_min,
                frequency_max |-> in.freq_max]]

\* SettingsWindow.save_settings
SaveSettings(in) ==
    /\ mainDone
    /\ LET old_alarm_enabled == config.alarm.enabled
           cfg == saved_config(config, in)
           starts == in.alarm_checkbox /\ ~old_alarm_enabled
           stops == ~in.alarm_checkbox /\ old_alarm_enabled
       IN /\ config' = cfg
          /\ alarm_manager' = IF starts THEN start_alarm(alarm_manager, cfg, now)
                              ELSE IF stops THEN stop_alarm(alarm_manager)
                              ELSE alarm_manager
          /\ countdown' = IF starts THEN shown_by_start(alarm_manager, countdown)
                          ELSE IF stops THEN hidden_by_stop(countdown)
                          ELSE countdown
          /\ lastCall' = IF starts THEN start_call(alarm_manager)
                         ELSE IF stops THEN "stop"
                         ELSE lastCall
    /\ config_file' = save_config(config')
    /\ UNCHANGED <<now, mainDone, sg, threads, tests, errors, audio>>

\* The configuration test_sound leaves behind: temp_config is a shallow copy,
\* so its "sound" and "alarm" dicts are the live configuration's own.
tested_config(cfg, in) ==
    [cfg EXCEPT !.sound.type = IF in.sound_type # "none" THEN <<in.sound_type>>
                               ELSE checked_types(in.kinds),
                !.sound.frequency_min = in.freq_min,
                !.sound.frequency_max = in.freq_max,
                !.alarm.duration = TestDuration]

\* SettingsWindow.test_sound: a new SoundGenerator and a thread that plays on it.
TestSound(in) ==
    /\ mainDone
    /\ tests < MaxTests
    /\ FreeSlots # {}
    /\ tests' = tests + 1
    /\ config' = tested_config(config, in)
    /\ LET t == Min(FreeSlots)
       IN /\ sg' = [sg EXCEPT ![t] = NewSoundGenerator]
          /\ threads' = spawn(threads, t, t, sg')
    /\ UNCHANGED <<now, mainDone, alarm_manager, countdown, lastCall, errors, config_file, audio>>

----------------------------------------------------------------------------
\* SoundGenerator.play_sound, one action per step of the worker thread

\* a lock that never keeps a thread out
lock_free_always(g) == TRUE

\* `with self._lock` lets the thread in when no thread holds the lock.
lock_free(g) == sg[g].lock = 0

\* a with block that an exception leaves without releasing the lock
released_keeps_lock(gens, g) == gens

\* The thread leaves play_sound by a return or by an exception that leaves
\* the with block: the lock is released and the thread ends.
released(gens, g) == [gens EXCEPT ![g].lock = 0]

\* a finally clause that leaves the playing flag set
finished_keeps_playing(gens, g) == [gens EXCEPT ![g].play_obj = 0, ![g].lock = 0]

\* a finally clause after which the lock stays taken
finished_keeps_lock(gens, g) == [gens EXCEPT ![g].playing = FALSE, ![g].play_obj = 0]

\* a finally clause that keeps the handle of the finished playback
finished_keeps_handle(gens, g) == [gens EXCEPT ![g].playing = FALSE, ![g].lock = 0]

\* finally (lines 134-137), then the end of the with block
finished(gens, g) == [gens EXCEPT ![g] = [playing |-> FALSE, play_obj |-> 0, lock |-> 0]]

ended(ths, t) == [ths EXCEPT ![t] = IdleThread]

\* except (lines 132-133): the error is printed
logged(n) == IF n < MaxErrors THEN n + 1 ELSE n

\* lines 94-106: acquire the lock; return if a sound is playing; otherwise
\* random.choice(sound_types) (IndexError on an empty list) and read frequency_min
Acquire(t) ==
    /\ threads[t].pc = "lock"
    /\ lock_free(threads[t].gen)
    /\ IF sg[threads[t].gen].playing \/ config.sound.type = <<>>
       THEN /\ sg' = released(sg, threads[t].gen)
            /\ threads' = ended(threads, t)
       ELSE /\ sg' = [sg EXCEPT ![threads[t].gen].lock = t]
            /\ \E k \in SeqToSet(config.sound.type) :
                 threads' = [threads EXCEPT ![t].pc = "rmax", ![t].kind = k,
                                            ![t].min_freq = config.sound.frequency_min]
    /\ UNCHANGED <<now, mainDone, config, alarm_manager, countdown, lastCall, tests, errors, config_file, audio>>

\* a frequency drawn from a range one too wide at the top
ReadMax_past_max(t) ==
    /\ threads[t].pc = "rmax"
    /\ IF threads[t].min_freq > config.sound.frequency_max
       THEN /\ sg' = released(sg, threads[t].gen)
            /\ threads' = ended(threads, t)
       ELSE /\ \E f \in threads[t].min_freq .. config.sound.frequency_max + 1 :
                 threads' = [threads EXCEPT ![t].pc = "rdur", ![t].selected_frequency = f]
            /\ UNCHANGED sg
    /\ UNCHANGED <<now, mainDone, config, alarm_manager, countdown, lastCall, tests, errors, config_file, audio>>

\* lines 107-108: read frequency_max; random.randint raises on an empty range
ReadMax(t) ==
    /\ threads[t].pc = "rmax"
    /\ IF threads[t].min_freq > config.sound.frequency_max
       THEN /\ sg' = released(sg, threads[t].gen)
            /\ threads' = ended(threads, t)
       ELSE /\ \E f \in threads[t].min_freq .. config.sound.frequency_max :
                 threads' = [threads EXCEPT ![t].pc = "rdur", ![t].selected_frequency = f]
            /\ UNCHANGED sg
    /\ UNCHANGED <<now, mainDone, config, alarm_manager, countdown, lastCall, tests, errors, config_file, audio>>

\* lines 110-130: read the duration, render, set playing, and start the
\* playback; when sa.play_buffer raises, the except and finally clauses run
\* and the thread leaves.
StartPlayback(t) ==
    /\ threads[t].pc = "rdur"
    /\ \/ /\ sg' = [sg EXCEPT ![threads[t].gen].playing = TRUE,
                              ![threads[t].gen].play_obj = t]
          /\ threads' = [threads EXCEPT ![t].pc = "wait",
                            ![t].duration = config.alarm.duration,
                            ![t].endTime = now + config.alarm.duration * MsPerTenth]
          /\ UNCHANGED errors
       \/ /\ sg' = finished(sg, threads[t].gen)
          /\ threads' = ended(threads, t)
          /\ errors' = logged(errors)
    /\ UNCHANGED <<now, mainDone, config, alarm_manager, countdown, lastCall, tests, config_file, audio>>

\* lines 110-122: reading the duration or rendering the buffer raises (a
\* duration np.linspace rejects, no memory for the arrays); the exception
\* leaves the with block before playing is set
RenderFails(t) ==
    /\ threads[t].pc = "rdur"
    /\ sg' = released(sg, threads[t].gen)
    /\ threads' = ended(threads, t)
    /\ UNCHANGED <<now, mainDone, config, alarm_manager, countdown, lastCall, tests, errors, config_file, audio>>

\* lines 131-137: wait_done returns when the buffer has been played; finally
\* clears playing and play_obj and the with block releases the lock
WaitDone(t) ==
    /\ threads[t].pc = "wait"
    /\ now >= threads[t].endTime
    /\ sg' = finished(sg, threads[t].gen)
    /\ threads' = ended(threads, t)
    /\ UNCHANGED <<now, mainDone, config, alarm_manager, countdown, lastCall, tests, errors, config_file, audio>>

\* lines 131-137: wait_done returns after a finite time, whether or not the
\* clock of the model reaches the end of the buffer
WaitReturns(t) ==
    /\ threads[t].pc = "wait"
    /\ sg' = finished(sg, threads[t].gen)
    /\ threads' = ended(threads, t)
    /\ UNCHANGED <<now, mainDone, config, alarm_manager, countdown, lastCall, tests, errors, config_file, audio>>

\* lines 131-137: wait_done raises while the buffer is being played; the
\* except clause prints the error, then finally and the end of the with block
WaitFails(t) ==
    /\ threads[t].pc = "wait"
    /\ now < threads[t].endTime
    /\ sg' = finished(sg, threads[t].gen)
    /\ threads' = ended(threads, t)
    /\ errors' = logged(errors)
    /\ UNCHANGED <<now, mainDone, config, alarm_manager, countdown, lastCall, tests, config_file, audio>>

----------------------------------------------------------------------------
Next ==
    \/ Main
    \/ \E d \in TickSteps : Tick(d)
    \/ AlarmCallback
    \/ \E checked \in BOOLEAN : ToggleAlarm(checked)
    \/ \E in \in SaveInputs : SaveSettings(in)
    \/ \E in \in TestInputs : TestSound(in)
    \/ \E t \in ThreadIds : Acquire(t)
    \/ \E t \in ThreadIds : ReadMax(t)
    \/ \E t \in ThreadIds : StartPlayback(t)
    \/ \E t \in ThreadIds : WaitDone(t)

Spec == Init /\ [][Next]_vars

\* The same program under a user who varies the interval.
SchedNext ==
    \/ Main
    \/ \E d \in TickSteps : Tick(d)
    \/ AlarmCallback
    \/ \E checked \in BOOLEAN : ToggleAlarm(checked)
    \/ \E in \in SchedSaveInputs : SaveSettings(in)
    \/ \E in \in TestInputs : TestSound(in)
    \/ \E t \in ThreadIds : Acquire(t)
    \/ \E t \in ThreadIds : ReadMax(t)
    \/ \E t \in ThreadIds : StartPlayback(t)
    \/ \E t \in ThreadIds : WaitDone(t)

SpecSched == SchedInit /\ [][SchedNext]_vars

\* The same program with workers that the operating system schedules late.
ThreadsNext ==
    \/ Main
    \/ \E d \in TickSteps : TickLate(d)
    \/ AlarmCallback
    \/ \E checked \in BOOLEAN : ToggleAlarm(checked)
    \/ \E in \in ThreadsSaveInputs : SaveSettings(in)
    \/ \E in \in TestInputs : TestSound(in)
    \/ \E t \in ThreadIds : Acquire(t)
    \/ \E t \in ThreadIds : ReadMax(t)
    \/ \E t \in ThreadIds : StartPlayback(t)
    \/ \E t \in ThreadIds : WaitDone(t)

SpecThreads == SchedInit /\ [][ThreadsNext]_vars

\* The same program started on a config.json that holds any interval:
\* load_config returns what json.load reads.
LoadedIntervals == {2, MinInterval}

LoadedConfigs ==
    { [c EXCEPT !.alarm.interval = i] : c \in SchedInitConfigs, i \in LoadedIntervals }

LoadInit == InitFrom(LoadedConfigs)

SpecLoad == LoadInit /\ [][SchedNext]_vars

\* The same program under a user who varies the sound settings in the dialog:
\* any set of kind check boxes, and frequencies both spin boxes accept (the
\* minimum takes 200..1000, the maximum 400..2000).
SoundKindChoices == {{}, {"sine"}, {"square", "triangle"}}
SoundFreqMinChoices == {400, 402}
SoundFreqMaxChoices == {400, 401}

SoundSaveInputs ==
    [alarm_checkbox : BOOLEAN, duration : {DefaultDuration},
     hours : {0}, minutes : {0}, seconds : {3},
     kinds : SoundKindChoices, freq_min : SoundFreqMinChoices,
     freq_max : SoundFreqMaxChoices]

SoundNext ==
    \/ Main
    \/ \E d \in TickSteps : Tick(d)
    \/ AlarmCallback
    \/ \E in \in SoundSaveInputs : SaveSettings(in)
    \/ \E t \in ThreadIds : Acquire(t)
    \/ \E t \in ThreadIds : ReadMax(t)
    \/ \E t \in ThreadIds : StartPlayback(t)
    \/ \E t \in ThreadIds : WaitDone(t)

SpecSound == SchedInit /\ [][SoundNext]_vars

\* ConfigManager.__init__ on its own: config.json is missing, unparseable, or
\* holds any JSON object, with or without the keys the core reads.
FileObjects ==
    { [alarm |-> [enabled |-> e, duration |-> d, interval |-> i],
       sound |-> [type |-> k, frequency_min |-> 400, frequency_max |-> m]]
      : e \in BOOLEAN, d \in DurationChoices, i \in {2, MinInterval, 7, DefaultInterval},
        k \in {<<"sine">>, WaveKinds}, m \in {400, 800} }
    \cup {[dragToMove |-> TRUE]}

FileStates ==
    {[state |-> "missing", content |-> [text |-> ""]],
     [state |-> "corrupt", content |-> [text |-> "{"]]}
    \cup {save_config(c) : c \in FileObjects}

ConfigInit ==
    /\ now = 0
    /\ mainDone = FALSE
    /\ config = [unset |-> TRUE]
    /\ config_file \in FileStates
    /\ alarm_manager = [active |-> FALSE, last_trigger_time |-> 0,
                        timer |-> [active |-> FALSE, interval |-> 0, deadline |-> 0]]
    /\ countdown = [visible |-> FALSE, remaining_ms |-> 0, text |-> <<>>]
    /\ sg = [g \in GenIds |-> NewSoundGenerator]
    /\ threads = [t \in ThreadIds |-> IdleThread]
    /\ lastCall = "none"
    /\ tests = 0
    /\ errors = 0
    /\ audio = NoAudio

\* ConfigManager.__init__: self.config = self.load_config()
LoadConfig ==
    /\ ~mainDone
    /\ lastCall = "none"
    /\ config' = load_config(config_file).config
    /\ config_file' = load_config(config_file).file
    /\ lastCall' = [missing |-> "load_missing", corrupt |-> "load_corrupt",
                    valid |-> "load"][config_file.state]
    /\ UNCHANGED <<now, mainDone, alarm_manager, countdown, sg, threads, tests, errors, audio>>

ConfigNext == LoadConfig

SpecConfig == ConfigInit /\ [][ConfigNext]_vars

\* The rendering on its own, one buffer per behaviour: every kind, every
\* duration of the duration spin box (0.1 s to 10.0 s), every amplitude of the
\* probed frame.
Render(kind, duration, a) ==
    /\ ~audio.rendered
    /\ audio' = render(kind, duration, a)
    /\ UNCHANGED <<now, mainDone, config, alarm_manager, countdown, sg, threads, lastCall,
                   tests, errors, config_file>>

RenderNext ==
    \E kind \in SeqToSet(WaveKinds), duration \in 1..MaxDuration :
        \E a \in unit_amplitudes(kind) : Render(kind, duration, a)

SpecRender == SchedInit /\ [][RenderNext]_vars

\* The same program with an audio device whose playback can fail at any time.
FaultsNext ==
    \/ Main
    \/ \E d \in TickSteps : Tick(d)
    \/ AlarmCallback
    \/ \E checked \in BOOLEAN : ToggleAlarm(checked)
    \/ \E in \in ThreadsSaveInputs : SaveSettings(in)
    \/ \E in \in TestInputs : TestSound(in)
    \/ \E t \in ThreadIds : Acquire(t)
    \/ \E t \in ThreadIds : ReadMax(t)
    \/ \E t \in ThreadIds : StartPlayback(t)
    \/ \E t \in ThreadIds : WaitDone(t)
    \/ \E t \in ThreadIds : WaitFails(t)

SpecFaults == SchedInit /\ [][FaultsNext]_vars

\* The same program under a user who varies the sound settings, with
\* rendering and playback that can fail: every way play_sound can end.
ExitsNext ==
    \/ SoundNext
    \/ \E t \in ThreadIds : RenderFails(t)
    \/ \E t \in ThreadIds : WaitFails(t)

SpecExits == SchedInit /\ [][ExitsNext]_vars

\* The same program with a sound that lasts longer than the interval (6 s
\* every 5 s), the overlay's redraws and the tray's toggle: the event loop
\* while a worker holds the playback lock.
UiInit == InitFrom(Configs({60}))

UiNext ==
    \/ Main
    \/ \E d \in TickSteps : Tick(d)
    \/ AlarmCallback
    \/ UpdateCountdown
    \/ \E checked \in BOOLEAN : ToggleAlarm(checked)
    \/ \E t \in ThreadIds : Acquire(t)
    \/ \E t \in ThreadIds : ReadMax(t)
    \/ \E t \in ThreadIds : StartPlayback(t)
    \/ \E t \in ThreadIds : WaitDone(t)

SpecUi == UiInit /\ [][UiNext]_vars

\* The settings dialog on its own, with the alarm switched off: any set of
\* kind check boxes, saved or tested, with a kind's own test button
\* (test_sound("square")) or the button that tests the selection (test_sound()).
DialogInitConfigs == {c \in SchedInitConfigs : ~c.alarm.enabled}

DialogSaveInputs ==
    [alarm_checkbox : {FALSE}, duration : {DefaultDuration},
     hours : {0}, minutes : {0}, seconds : {3},
     kinds : SoundKindChoices, freq_min : FreqMinChoices, freq_max : FreqMaxChoices]

DialogTestInputs ==
    [sound_type : {"none", "square"}, kinds : SoundKindChoices,
     freq_min : FreqMinChoices, freq_max : FreqMaxChoices]

DialogNext ==
    \/ Main
    \/ \E d \in TickSteps : Tick(d)
    \/ \E in \in DialogSaveInputs : SaveSettings(in)
    \/ \E in \in DialogTestInputs : TestSound(in)
    \/ \E t \in ThreadIds : Acquire(t)
    \/ \E t \in ThreadIds : ReadMax(t)
    \/ \E t \in ThreadIds : StartPlayback(t)
    \/ \E t \in ThreadIds : WaitDone(t)

SpecDialog == InitFrom(DialogInitConfigs) /\ [][DialogNext]_vars

\* The program with an event loop that processes its events and an operating
\* system that schedules the workers: main reaches the event loop, time
\* passes, a timer that has timed out gets its callback, and a worker that can
\* take a step takes it.  The user's toggles are under no obligation.
LiveNext ==
    \/ Main
    \/ \E d \in TickSteps : Tick(d)
    \/ AlarmCallback
    \/ \E checked \in BOOLEAN : ToggleAlarm(checked)
    \/ \E t \in ThreadIds : Acquire(t)
    \/ \E t \in ThreadIds : ReadMax(t)
    \/ \E t \in ThreadIds : StartPlayback(t)
    \/ \E t \in ThreadIds : WaitDone(t)

SpecLive ==
    /\ SchedInit
    /\ [][LiveNext]_vars
    /\ WF_vars(Main)
    /\ WF_vars(\E d \in TickSteps : Tick(d))
    /\ WF_vars(AlarmCallback)
    /\ \A t \in ThreadIds :
          /\ WF_vars(Acquire(t))
          /\ WF_vars(ReadMax(t))
          /\ WF_vars(StartPlayback(t))
          /\ WF_vars(WaitDone(t))

\* The same program under a user who saves frequency ranges that are all
\* valid on their own (minimum at most maximum): 400..400, 400..401, 400..403
\* and 402..403.
SnapshotSaveInputs ==
    { in \in [alarm_checkbox : BOOLEAN, duration : {DefaultDuration},
              hours : {0}, minutes : {0}, seconds : {3},
              kinds : KindChoices, freq_min : {400, 402}, freq_max : {400, 401, 403}]
        : in.freq_min <= in.freq_max }

SnapshotNext ==
    \/ Main
    \/ \E d \in TickSteps : Tick(d)
    \/ AlarmCallback
    \/ \E in \in SnapshotSaveInputs : SaveSettings(in)
    \/ \E t \in ThreadIds : Acquire(t)
    \/ \E t \in ThreadIds : ReadMax(t)
    \/ \E t \in ThreadIds : StartPlayback(t)
    \/ \E t \in ThreadIds : WaitDone(t)

SpecSnapshot == SchedInit /\ [][SnapshotNext]_vars

\* The program with workers the operating system schedules whenever it
\* likes, but does schedule: a worker that can take a step eventually takes
\* it, and a playback that has started eventually returns.  Fires, toggles,
\* test sounds and the passing of time are under no obligation.  The clock
\* is observed once per interval, which is when the timer is due.
TerminateSteps == {MinInterval * MsPerSecond}

TerminateNext ==
    \/ Main
    \/ \E d \in TerminateSteps : TickLate(d)
    \/ AlarmCallback
    \/ \E checked \in BOOLEAN : ToggleAlarm(checked)
    \/ \E in \in TestInputs : TestSound(in)
    \/ \E t \in ThreadIds : Acquire(t)
    \/ \E t \in ThreadIds : ReadMax(t)
    \/ \E t \in ThreadIds : StartPlayback(t)
    \/ \E t \in ThreadIds : WaitReturns(t)

SpecTerminate ==
    /\ SchedInit
    /\ [][TerminateNext]_vars
    /\ \A t \in ThreadIds :
          /\ WF_vars(Acquire(t))
          /\ WF_vars(ReadMax(t))
          /\ WF_vars(StartPlayback(t))
          /\ WF_vars(WaitReturns(t))

\* The countdown computation on its own: the wall clock is the system's and
\* may stand anywhere relative to last_trigger_time (it can be set back), and
\* the interval is any the settings can store.
CountdownTimes == {lap * 2500 + off : lap \in 0..MaxLaps, off \in {0, 1, 2499}}

CountdownInit ==
    /\ now \in CountdownTimes
    /\ mainDone = TRUE
    /\ config \in { [c EXCEPT !.alarm.enabled = TRUE, !.alarm.interval = i] :
                    c \in SchedInitConfigs, i \in {MinInterval, 7} }
    /\ \E ltt \in CountdownTimes :
         alarm_manager = [active |-> TRUE, last_trigger_time |-> ltt,
                          timer |-> timer_start(config.alarm.interval * MsPerSecond, ltt)]
    /\ countdown = [visible |-> TRUE, remaining_ms |-> 0, text |-> <<>>]
    /\ sg = [g \in GenIds |-> NewSoundGenerator]
    /\ threads = [t \in ThreadIds |-> IdleThread]
    /\ lastCall = "none"
    /\ tests = 0
    /\ errors = 0
    /\ audio = NoAudio
    /\ config_file = save_config(config)

CountdownNext == UpdateCountdown

SpecCountdown == CountdownInit /\ [][CountdownNext]_vars

----------------------------------------------------------------------------
\* Properties

\* The thread is between acquiring and releasing its generator's lock.
InBody(t) == threads[t].pc \in {"rmax", "rdur", "wait"}

\* The thread is kept out of play_sound's body by another thread's lock.
Blocked(t) == threads[t].pc = "lock" /\ sg[threads[t].gen].lock # 0

\* The thread's buffer is being played by the audio device.
Sounding(t) == threads[t].pc = "wait" /\ now < threads[t].endTime

\* The workers running play_sound of the scheduler's SoundGenerator.
AlarmWorkers == {t \in ThreadIds : threads[t].pc # "idle" /\ threads[t].gen = 0}

\* C1: for each SoundGenerator, at most one thread is inside the
\* render-and-play body of play_sound (holds the lock) at any time, however
\* the worker threads are scheduled.
C1_OneThreadInBody ==
    \A g \in GenIds :
        Cardinality({t \in ThreadIds : threads[t].gen = g /\ InBody(t)}) <= 1

\* Two workers of the scheduler's generator: one inside the body, one kept out.
C1_Witness ==
    \E t, u \in AlarmWorkers : InBody(t) /\ Blocked(u) /\ sg[0].lock = t

\* C2: a play_sound call made while the same generator is playing is a
\* no-op: that call never enters the body, so it never renders or plays a
\* waveform and never touches the playing flag or the handle.
C2_BusyCallIsNoOp ==
    \A t \in ThreadIds : threads[t].busy => ~InBody(t)

\* C3: alarm fires that arrive while a sound is playing are dropped: the
\* scheduler's generator never has more than one worker that is playing or
\* waiting for the lock.
C3_AtMostOneInFlight ==
    Cardinality({t \in AlarmWorkers : InBody(t) \/ Blocked(t)}) <= 1

\* C4: in the whole program at most one waveform is being played at any time.
C4_OneWaveformProgramWide ==
    Cardinality({t \in ThreadIds : Sounding(t)}) <= 1

\* C5: start_alarm called while the scheduler is active changes neither
\* active, last_trigger_time, nor the timer's deadline and interval.
C5_StartWhileActiveIsNoOp ==
    [][lastCall' = "start_noop" => alarm_manager' = alarm_manager]_vars

\* start_alarm was called on a running scheduler some time after its last
\* trigger, and the pending deadline is still the one set then.
C5_Witness ==
    /\ lastCall = "start_noop"
    /\ alarm_manager.active
    /\ now > alarm_manager.last_trigger_time
    /\ alarm_manager.timer.deadline =
           alarm_manager.last_trigger_time + alarm_manager.timer.interval

\* C6: start_alarm called while stopped sets active, sets last_trigger_time
\* to the time of the call and arms the timer with the configured interval.
C6_StartFromStopped ==
    [][(~alarm_manager.active /\ alarm_manager'.active) =>
          /\ alarm_manager'.last_trigger_time = now
          /\ alarm_manager'.timer =
                 [active |-> TRUE,
                  interval |-> config'.alarm.interval * MsPerSecond,
                  deadline |-> now + config'.alarm.interval * MsPerSecond]]_vars

\* A restart while the sound of an earlier cycle's fire is still playing.
C6_Witness ==
    /\ lastCall = "start"
    /\ alarm_manager.last_trigger_time = now
    /\ \E t \in AlarmWorkers : Sounding(t)

\* C7: whenever the scheduler is not active its timer is not scheduled, so
\* no alarm_callback can run; stop_alarm brings this about.
C7_StoppedMeansNoTimer ==
    ~alarm_manager.active =>
        (~alarm_manager.timer.active /\ ~ENABLED AlarmCallback)

\* stop_alarm has just stopped a scheduler that had been started or fired
\* after startup.
C7_Witness ==
    /\ lastCall = "stop"
    /\ ~alarm_manager.active
    /\ alarm_manager.last_trigger_time > 0

\* C8: an interval saved while the scheduler runs leaves the pending deadline
\* alone; the pending fire happens at that deadline, and every fire re-arms
\* the timer one configured interval ahead.
C8_IntervalTakesEffectNextCycle ==
    [][/\ (alarm_manager.active /\ alarm_manager'.active
             /\ config'.alarm.interval # config.alarm.interval)
          => alarm_manager'.timer = alarm_manager.timer
       /\ AlarmCallback
          => /\ now = alarm_manager.timer.deadline
             /\ alarm_manager'.timer.interval = config.alarm.interval * MsPerSecond
             /\ alarm_manager'.timer.deadline =
                    now + config.alarm.interval * MsPerSecond]_vars

\* The timer armed with 5 s at time 0 has fired at 5 s and is re-armed with
\* the 7 s saved in between.
C8_Witness ==
    /\ lastCall = "fire"
    /\ now = 5000
    /\ alarm_manager.timer.interval = 7000
    /\ alarm_manager.timer.deadline = 12000

\* C9: the remaining time update_countdown computes lies in 1..interval_ms,
\* and equals interval_ms when no time has elapsed since last_trigger_time.
C9_RemainingInRange ==
    countdown.text # <<>> =>
        /\ countdown.remaining_ms \in 1..(config.alarm.interval * MsPerSecond)
        /\ now = alarm_manager.last_trigger_time
           => countdown.remaining_ms = config.alarm.interval * MsPerSecond

\* The countdown was computed more than one interval after the trigger time.
C9_Witness ==
    /\ countdown.text # <<>>
    /\ now - alarm_manager.last_trigger_time > config.alarm.interval * MsPerSecond
    /\ countdown.remaining_ms < config.alarm.interval * MsPerSecond

\* The interval the timer runs with is the configured one.
IntervalCurrent ==
    alarm_manager.timer.interval = config.alarm.interval * MsPerSecond

\* The first fire after the present instant: the pending deadline, or, at the
\* instant a fire is due, the deadline that fire sets.
NextFire ==
    IF now < alarm_manager.timer.deadline THEN alarm_manager.timer.deadline
    ELSE alarm_manager.timer.deadline + alarm_manager.timer.interval

CountdownAgrees ==
    (alarm_manager.active /\ IntervalCurrent) =>
        now + remaining_ms(config, alarm_manager.last_trigger_time, now) = NextFire

\* C10: while the scheduler runs with the configured interval unchanged since
\* the last start or fire, now plus the computed remaining time is the time
\* of the next fire, and the remaining time strictly decreases from one fire
\* to the next.
C10_CountdownAgreesWithTimer ==
    [][/\ CountdownAgrees
       /\ CountdownAgrees'
       /\ (/\ alarm_manager.active /\ IntervalCurrent
           /\ alarm_manager' = alarm_manager
           /\ config'.alarm.interval = config.alarm.interval
           /\ now < now' /\ now' < alarm_manager.timer.deadline)
          => remaining_ms(config', alarm_manager'.last_trigger_time, now')
               < remaining_ms(config, alarm_manager.last_trigger_time, now)]_vars

\* Interval 5 s, started at 0: 2000 ms remain at 3 s and the fire is due at 5 s.
C10_Witness ==
    /\ alarm_manager.active
    /\ config.alarm.interval = 5
    /\ alarm_manager.last_trigger_time = 0
    /\ now = 3000
    /\ alarm_manager.timer.deadline = 5000
    /\ remaining_ms(config, alarm_manager.last_trigger_time, now) = 2000

\* Starting the playback (sa.play_buffer) or waiting for it (wait_done) raised
\* in thread t during this step.
PlaybackRaised(t) ==
    \/ StartPlayback(t) /\ threads'[t].pc = "idle"
    \/ WaitFails(t)

\* The timer of a running scheduler is armed one interval after the last
\* trigger and its deadline has not been missed.
OnSchedule ==
    alarm_manager.active =>
        /\ alarm_manager.timer.active
        /\ alarm_manager.timer.deadline =
               alarm_manager.last_trigger_time + alarm_manager.timer.interval
        /\ now <= alarm_manager.timer.deadline

\* C11: when starting or waiting for the playback raises inside play_sound,
\* the error is handled there (playback state reset, lock released, thread
\* ended) and the scheduler's active flag, last_trigger_time and timer are
\* unchanged; the timer stays on schedule and fires at its deadline.
C11_PlaybackFailureLeavesScheduler ==
    [][/\ \A t \in ThreadIds :
            PlaybackRaised(t) =>
                /\ alarm_manager' = alarm_manager
                /\ sg'[threads[t].gen] = NewSoundGenerator
                /\ threads'[t] = IdleThread
       /\ OnSchedule /\ OnSchedule'
       /\ AlarmCallback => now = alarm_manager.timer.deadline]_vars

\* The playback of the fire at 5 s failed and the next fire came at 10 s.
C11_Witness ==
    /\ errors > 0
    /\ tests = 0
    /\ lastCall = "fire"
    /\ now = 10000
    /\ alarm_manager.last_trigger_time = 10000
    /\ alarm_manager.timer.deadline = 15000

\* stop_alarm is called in this step.
StopCalled ==
    \/ ToggleAlarm(FALSE)
    \/ alarm_manager.active /\ ~alarm_manager'.active

\* C12: stop_alarm leaves every synthesizer's playing flag, handle and lock
\* and every worker thread untouched, and a playback only ends when its
\* buffer has been played to the end.
C12_StopLeavesPlayback ==
    [][/\ StopCalled => (sg' = sg /\ threads' = threads)
       /\ \A t \in ThreadIds :
            (threads[t].pc = "wait" /\ threads'[t].pc # "wait")
                => now >= threads[t].endTime]_vars

\* stop_alarm has been called while the sound of the last fire is playing.
C12_Witness ==
    /\ lastCall = "stop"
    /\ ~alarm_manager.active
    /\ \E t \in AlarmWorkers :
         Sounding(t) /\ sg[0].playing /\ sg[0].lock = t /\ sg[0].play_obj = t

\* C13: once startup has finished, the configured alarm.interval is at least
\* 5 seconds (it is the interval the countdown is computed from), and the
\* interval the timer is armed with is at least 5000 ms.
C13_IntervalAtLeastMinimum ==
    mainDone =>
        /\ config.alarm.interval >= MinInterval
        /\ alarm_manager.timer.active
           => alarm_manager.timer.interval >= MinInterval * MsPerSecond

\* Every settings save stores an interval of at least 5 seconds.
SaveClampsInterval ==
    [][\A in \in SchedSaveInputs :
          SaveSettings(in) => config'.alarm.interval >= MinInterval]_vars

\* C14: in every reachable state of the configuration, sound.frequency_min
\* is at most sound.frequency_max.
C14_FrequencyRangeOrdered ==
    config.sound.frequency_min <= config.sound.frequency_max

\* The thread has chosen the kind and the frequency it renders with.
Renders(t) == threads[t].pc \in {"rdur", "wait"}

\* C15: a play_sound that renders uses a kind from the kind list it read and
\* an integer frequency between the frequency_min and the frequency_max it
\* read: exactly that frequency when the two are equal, and the single kind
\* of a one-element list.
C15_KindAndFrequencyFromConfig ==
    [][\A t \in ThreadIds :
         /\ (Acquire(t) /\ threads'[t].pc = "rmax") =>
               /\ threads'[t].kind \in SeqToSet(config.sound.type)
               /\ Len(config.sound.type) = 1 => threads'[t].kind = config.sound.type[1]
               /\ threads'[t].min_freq = config.sound.frequency_min
         /\ (ReadMax(t) /\ threads'[t].pc = "rdur") =>
               /\ threads'[t].selected_frequency >= threads[t].min_freq
               /\ threads'[t].selected_frequency <= config.sound.frequency_max
               /\ threads[t].min_freq = config.sound.frequency_max
                  => threads'[t].selected_frequency = threads[t].min_freq
               /\ threads'[t].kind = threads[t].kind
         /\ (Renders(t) /\ Renders(t)') =>
               /\ threads'[t].kind = threads[t].kind
               /\ threads'[t].selected_frequency = threads[t].selected_frequency]_vars

\* A sound is playing with a kind and a frequency drawn from a list of two
\* kinds and a range of two frequencies.
C15_Witness ==
    \E t \in ThreadIds :
        /\ Sounding(t)
        /\ config.sound.type = <<"square", "triangle">>
        /\ threads[t].kind = "triangle"
        /\ config.sound.frequency_min = 400
        /\ config.sound.frequency_max = 401
        /\ threads[t].selected_frequency = 401

\* The configuration holds the keys the scheduler and the synthesizer read.
HasCoreKeys(c) ==
    /\ {"alarm", "sound"} \subseteq DOMAIN c
    /\ {"enabled", "duration", "interval"} \subseteq DOMAIN c.alarm
    /\ {"type", "frequency_min", "frequency_max"} \subseteq DOMAIN c.sound

C17_FrameCount ==
    audio.rendered =>
        /\ audio.frames = (audio.duration * sample_rate) \div 10
        /\ audio.left = audio.right

\* C18: every sample of a rendered square wave is -16383, 0 or 16383, and
\* it is 0 only where the sign of the sine is 0.
C18_SquareWaveLevels ==
    (audio.rendered /\ audio.kind = "square") =>
        /\ audio.left \in {-16383, 0, 16383}
        /\ audio.right = audio.left
        /\ audio.left = 0 <=> audio.unit = 0

\* A square wave frame on the negative half of the sine.
C18_Witness ==
    audio.rendered /\ audio.kind = "square" /\ audio.left = -16383

\* Thread t leaves play_sound in this step, by a return or by an exception.
Leaves(t) == threads[t].pc # "idle" /\ threads'[t].pc = "idle"

\* C19: every invocation of play_sound, whether the playback ran to its end,
\* starting or waiting for the playback raised, or the parameter selection or
\* the rendering raised before the playback, leaves its SoundGenerator with
\* playing false, no playback handle and the lock free, so that the next
\* play_sound on it can acquire the lock; and a thread that holds the lock
\* leaves only through one of these ways.
C19_EveryExitResetsPlayback ==
    [][\A t \in ThreadIds :
          Leaves(t) =>
              /\ sg'[threads[t].gen] = NewSoundGenerator
              /\ lock_free(threads[t].gen)'
              /\ \A u \in ThreadIds :
                     (u # t /\ threads[u].pc = "lock" /\ threads[u].gen = threads[t].gen)
                         => threads'[u].pc = "lock" /\ ~Blocked(u)']_vars

\* A playback failed, the invalid frequency range that made the selection
\* raise has been replaced, and a later play_sound holds the lock and plays.
C19_Witness ==
    /\ errors > 0
    /\ \E t \in ThreadIds :
          /\ Sounding(t)
          /\ threads[t].gen = 0
          /\ sg[0] = [playing |-> TRUE, play_obj |-> t, lock |-> t]

\* The timer of the running scheduler has timed out.
TimerDue == mainDone /\ alarm_manager.timer.active /\ now >= alarm_manager.timer.deadline

\* A worker holds the scheduler's playback lock.
LockHeld == sg[0].lock # 0

\* C20: alarm_callback does not wait for the audio.  A fire records the
\* trigger time, starts one worker thread at the entry of play_sound and
\* re-arms the timer one interval ahead, and neither reads nor changes the
\* playback state (playing, handle, lock).  While a worker holds the playback
\* lock, a due fire, the countdown redraw, start() and stop() can all be
\* processed by the event loop, and the fire comes at its deadline.
C20_CallbackNeverWaitsForAudio ==
    [][/\ AlarmCallback =>
            /\ sg' = sg
            /\ alarm_manager'.last_trigger_time = now
            /\ alarm_manager'.timer =
                   timer_start(config.alarm.interval * MsPerSecond, now)
            /\ \E t \in ThreadIds :
                  /\ threads[t].pc = "idle"
                  /\ threads'[t].pc = "lock"
                  /\ threads'[t].gen = 0
                  /\ \A u \in ThreadIds \ {t} : threads'[u] = threads[u]
            /\ now = alarm_manager.timer.deadline
       /\ (LockHeld /\ mainDone) =>
            /\ (TimerDue /\ FreeSlots # {}) => ENABLED AlarmCallback
            /\ ENABLED UpdateCountdown
            /\ ENABLED ToggleAlarm(TRUE)
            /\ ENABLED ToggleAlarm(FALSE)]_vars

\* The fire at 10 s came while the worker of the fire at 5 s held the lock for
\* its 6 s playback; the new worker waits for the lock, the timer is re-armed.
C20_Witness ==
    /\ lastCall = "fire"
    /\ now = 10000
    /\ alarm_manager.last_trigger_time = 10000
    /\ alarm_manager.timer.deadline = 15000
    /\ \E t, u \in ThreadIds : Sounding(t) /\ sg[0].lock = t /\ Blocked(u)

\* The list holds exactly the ticked kinds, each once; [sine] when none is ticked.
ListsSelection(list, kinds) ==
    IF kinds = {} THEN list = <<"sine">>
    ELSE SeqToSet(list) = kinds /\ Len(list) = Cardinality(kinds)

\* C21 as stated: after every save and every test sound the kind list is
\* non-empty, [sine] when no check box is ticked and otherwise exactly the
\* ticked kinds.
C21_KindListFromCheckboxes ==
    [][/\ \A in \in DialogSaveInputs :
            SaveSettings(in) =>
                config'.sound.type # <<>> /\ ListsSelection(config'.sound.type, in.kinds)
       /\ \A in \in DialogTestInputs :
            TestSound(in) =>
                config'.sound.type # <<>> /\ ListsSelection(config'.sound.type, in.kinds)]_vars

\* C21 (amended): after every save and every test sound the kind list is
\* non-empty; a test sound given a waveform argument gets exactly that
\* waveform; otherwise the list is [sine] when no check box is ticked and
\* exactly the ticked kinds when some are.
C21_KindListNonEmpty ==
    [][/\ \A in \in DialogSaveInputs :
            SaveSettings(in) =>
                config'.sound.type # <<>> /\ ListsSelection(config'.sound.type, in.kinds)
       /\ \A in \in DialogTestInputs :
            TestSound(in) =>
                /\ config'.sound.type # <<>>
                /\ IF in.sound_type # "none"
                   THEN config'.sound.type = <<in.sound_type>>
                   ELSE ListsSelection(config'.sound.type, in.kinds)]_vars

\* A test sound started with no check box ticked reads the list [sine].
C21_Witness ==
    /\ tests > 0
    /\ config.sound.type = <<"sine">>
    /\ config.alarm.duration = TestDuration
    /\ \E t \in ThreadIds : threads[t].gen = t /\ threads[t].pc = "rmax" /\ threads[t].kind = "sine"

\* C22: once main() has reached the event loop, the configuration's
\* alarm.enabled equals the scheduler's active flag, after any sequence of
\* tray toggles and settings saves; the dialog's check box may show either
\* value, whatever the tray did while the dialog was open.
C22_EnabledMatchesActive ==
    mainDone => (config.alarm.enabled = alarm_manager.active)

\* A toggle or a save has started the scheduler some time after startup, and
\* it has fired since.
C22_Witness ==
    /\ mainDone
    /\ config.alarm.enabled
    /\ alarm_manager.active
    /\ lastCall = "fire"
    /\ alarm_manager.last_trigger_time > MinInterval * MsPerSecond
    /\ alarm_manager.last_trigger_time % (MinInterval * MsPerSecond) # 0

\* The deadlines a timer can have within the time the model covers.
Deadlines == {k * MsPerSecond : k \in 0..(MaxTime \div MsPerSecond)}

\* C23: an active scheduler always has its timer armed, also right after a
\* fire, and every deadline the timer of a running scheduler has is followed
\* by the fire at that deadline unless the scheduler is stopped first: as long
\* as it keeps running, fire follows fire.
C23_RunningKeepsFiring ==
    /\ [](alarm_manager.active => alarm_manager.timer.active)
    /\ \A d \in Deadlines :
          (alarm_manager.active /\ alarm_manager.timer.deadline = d)
              ~> \/ ~alarm_manager.active
                 \/ lastCall = "fire" /\ alarm_manager.last_trigger_time = d

\* The second fire in a row of a scheduler running since startup; the timer
\* is armed for the third.
C23_Witness ==
    /\ lastCall = "fire"
    /\ alarm_manager.active
    /\ alarm_manager.last_trigger_time = 2 * MinInterval * MsPerSecond
    /\ alarm_manager.timer.active
    /\ alarm_manager.timer.deadline = 3 * MinInterval * MsPerSecond
    /\ \A t \in ThreadIds : threads[t].pc \in {"idle", "lock"}

\* C24: test_sound leaves the live configuration's sound.type,
\* sound.frequency_min, sound.frequency_max and alarm.duration as they were,
\* for any waveform argument and any control values, so an alarm sound that
\* starts afterwards plays for the saved duration.
C24_TestSoundLeavesConfig ==
    [][/\ \A in \in TestInputs :
            TestSound(in) =>
                /\ config'.sound = config.sound
                /\ config'.alarm.duration = config.alarm.duration
       /\ \A t \in ThreadIds :
            (StartPlayback(t) /\ threads[t].gen = 0 /\ threads'[t].pc = "wait")
                => threads'[t].duration = config_file.content.alarm.duration]_vars

\* No thread holds g's lock, and g is not playing and has no playback handle.
IdleWhenUnlocked(g) == sg[g].lock = 0 => (~sg[g].playing /\ sg[g].play_obj = 0)

\* C25: a SoundGenerator whose lock no thread holds has playing false and no
\* playback handle, so every thread that acquires the lock finds playing
\* false and the handle empty when it enters play_sound's body.
C25_UnlockedMeansIdle ==
    [][/\ \A g \in GenIds : IdleWhenUnlocked(g) /\ IdleWhenUnlocked(g)'
       /\ \A t \in ThreadIds :
            Acquire(t) =>
                /\ ~sg[threads[t].gen].playing
                /\ sg[threads[t].gen].play_obj = 0]_vars

\* A worker started while the previous fire's sound was playing has waited
\* for the lock and entered the body after that playback ended.
C25_Witness ==
    \E t \in ThreadIds :
        /\ threads[t].busy
        /\ threads[t].pc = "rmax"
        /\ sg[0] = [playing |-> FALSE, play_obj |-> 0, lock |-> t]

\* C26: while the scheduler is stopped no alarm sound starts playing; a
\* playback heard after stop_alarm is one that was in progress when it was
\* called.
C26_NoNewSoundAfterStop ==
    [][\A t \in ThreadIds :
          (StartPlayback(t) /\ threads[t].gen = 0 /\ threads'[t].pc = "wait")
              => alarm_manager.active]_vars

\* C27: while the scheduler runs, at every instant before the pending fire,
\* now plus the remaining time update_countdown computes is the time at which
\* the timer fires, also after alarm.interval has been changed by a save.
C27_CountdownAgreesAfterSave ==
    (mainDone /\ alarm_manager.active /\ now < alarm_manager.timer.deadline) =>
        now + remaining_ms(config, alarm_manager.last_trigger_time, now)
            = alarm_manager.timer.deadline

\* C28: a play_sound that runs while settings are saved takes frequency_min
\* and frequency_max from one saved configuration; every saved configuration
\* has frequency_min <= frequency_max, so the range it draws the frequency
\* from is never empty.
C28_ConsistentSnapshot ==
    [][/\ C14_FrequencyRangeOrdered
       /\ \A t \in ThreadIds :
            ReadMax(t) => threads[t].min_freq <= config.sound.frequency_max]_vars

====
